---------------------------- MODULE Spec2Model ----------------------------
(***************************************************************************)
(* Model of the nix-timemach backend: the two generation listers           *)
(* (list_generations in main.rs, NixService::list_generations in           *)
(* services/nix.rs) and the two diff engines (get_diff in main.rs,         *)
(* NixService::get_diff in services/nix.rs).                               *)
(*                                                                         *)
(* Text is modelled as sequences of one-character strings, so that         *)
(* lines(), split("-"), split_whitespace(), trim() and the regular         *)
(* expressions are computed character by character, as the code does.      *)
(* External commands are the environment: their spawn result, exit status  *)
(* and stdout are inputs of the action that runs them.                     *)
(*                                                                         *)
(* Intermediate values are passed as operator parameters rather than       *)
(* named in LET, so that each is computed once.                            *)
(***************************************************************************)
EXTENDS Integers, Sequences, FiniteSets, TLC

VARIABLES
    op,     \* the request being served: "none", "main_diff", "nix_diff",
            \* "main_list", "nix_list"
    pc,     \* where the request is: "idle", a step of it, "done"
    env,    \* the request's arguments and the outcome of each command run
    loc,    \* the local variables the request holds between two steps
    cmds,   \* the external commands run so far, in order
    res     \* the Result the request returned, once pc = "done"

vars == <<op, pc, env, loc, cmds, res>>

(***************************************************************************)
(* Bounds of the model.                                                    *)
(***************************************************************************)
\* most lines in the stdout of one dependency query
MaxRefs == 2

\* most lines in the stdout of a generation listing
MaxLines == 3

\* most lines in the stdout of the structural-diff tool
MaxDiffLines == 2

(***************************************************************************)
(* Characters and text helpers (Rust std).                                 *)
(***************************************************************************)
Digits == {"0", "1", "2", "3", "4", "5", "6", "7", "8", "9"}

DigitVal(c) ==
    CASE c = "0" -> 0 [] c = "1" -> 1 [] c = "2" -> 2 [] c = "3" -> 3
      [] c = "4" -> 4 [] c = "5" -> 5 [] c = "6" -> 6 [] c = "7" -> 7
      [] c = "8" -> 8 [] c = "9" -> 9

\* char::is_whitespace, on the characters the inputs are made of
IsSpace(c) == c \in {" ", "\t", "\r", "\n"}

Drop(s, n) == SubSeq(s, n + 1, Len(s))

Take(s, n) == SubSeq(s, 1, n)

\* the characters of s at positions a..b, those outside of s left out
Slice(s, a, b) ==
    SubSeq(s, IF a < 1 THEN 1 ELSE a, IF b > Len(s) THEN Len(s) ELSE b)

CharAt(s, pos, c) == pos >= 1 /\ pos <= Len(s) /\ s[pos] = c

\* str::starts_with
StartsWith(s, p) == Len(s) >= Len(p) /\ Take(s, Len(p)) = p

\* str::ends_with
EndsWith(s, p) == Len(s) >= Len(p) /\ Drop(s, Len(s) - Len(p)) = p

\* str::contains
Contains(s, p) ==
    \E i \in 0..(Len(s) - Len(p)) : SubSeq(s, i + 1, i + Len(p)) = p

\* index of the first occurrence of character c in s, 0 when there is none
IndexOf(s, c) ==
    IF \E i \in 1..Len(s) : s[i] = c
    THEN CHOOSE i \in 1..Len(s) : s[i] = c /\ \A j \in 1..(i - 1) : s[j] # c
    ELSE 0

\* how many digits s holds from position pos on
DigitRun(s, pos) ==
    IF pos > Len(s) THEN 0
    ELSE CHOOSE n \in 0..(Len(s) + 1 - pos) :
            /\ \A i \in pos..(pos + n - 1) : s[i] \in Digits
            /\ (pos + n > Len(s) \/ s[pos + n] \notin Digits)

\* how many whitespace characters s holds from position pos on
SpaceRun(s, pos) ==
    IF pos > Len(s) THEN 0
    ELSE CHOOSE n \in 0..(Len(s) + 1 - pos) :
            /\ \A i \in pos..(pos + n - 1) : IsSpace(s[i])
            /\ (pos + n > Len(s) \/ ~IsSpace(s[pos + n]))

\* how many characters other than whitespace s holds from position pos on
WordRun(s, pos) ==
    IF pos > Len(s) THEN 0
    ELSE CHOOSE n \in 0..(Len(s) + 1 - pos) :
            /\ \A i \in pos..(pos + n - 1) : ~IsSpace(s[i])
            /\ (pos + n > Len(s) \/ IsSpace(s[pos + n]))

\* how many whitespace characters s ends with
SpaceRunBack(s) ==
    CHOOSE n \in 0..Len(s) :
        /\ \A i \in (Len(s) - n + 1)..Len(s) : IsSpace(s[i])
        /\ (n = Len(s) \/ ~IsSpace(s[Len(s) - n]))

\* str::trim_start
TrimStart(s) == Drop(s, SpaceRun(s, 1))

\* str::trim_end
TrimEnd(s) == Take(s, Len(s) - SpaceRunBack(s))

\* str::trim
Trim(s) == TrimEnd(TrimStart(s))

\* str::split(c): the segments between occurrences of c, at least one
\* segment; i is the index of the first c in s
RECURSIVE SplitAt(_, _, _)
SplitAt(s, c, i) ==
    IF i = 0 THEN <<s>>
    ELSE <<Take(s, i - 1)>> \o SplitAt(Drop(s, i), c, IndexOf(Drop(s, i), c))

Split(s, c) == SplitAt(s, c, IndexOf(s, c))

\* a line without its terminator: the "\r" before a "\n" goes too
StripCr(raw) ==
    IF EndsWith(raw, <<"\r">>) THEN Take(raw, Len(raw) - 1) ELSE raw

\* str::lines: split at "\n", no final empty line; i is the index of the
\* first "\n" in s
RECURSIVE LinesAt(_, _)
LinesAt(s, i) ==
    IF s = <<>> THEN <<>>
    ELSE IF i = 0 THEN <<s>>
    ELSE <<StripCr(Take(s, i - 1))>> \o LinesAt(Drop(s, i), IndexOf(Drop(s, i), "\n"))

Lines(s) == LinesAt(s, IndexOf(s, "\n"))

\* str::split_whitespace: the maximal runs of non-whitespace characters; t
\* starts with no whitespace and n is the length of its first run
RECURSIVE WordsAt(_, _)
WordsAt(t, n) ==
    IF t = <<>> THEN <<>>
    ELSE <<Take(t, n)>>
         \o WordsAt(TrimStart(Drop(t, n)), WordRun(TrimStart(Drop(t, n)), 1))

SplitWhitespace(s) == WordsAt(TrimStart(s), WordRun(TrimStart(s), 1))

\* str::trim_end_matches(p): p removed from the end as often as it is there
RECURSIVE TrimEndMatches(_, _)
TrimEndMatches(s, p) ==
    IF EndsWith(s, p) THEN TrimEndMatches(Take(s, Len(s) - Len(p)), p) ELSE s

\* slice::contains
Has(s, x) == \E i \in 1..Len(s) : s[i] = x

\* the concatenation of the lines, each followed by "\n": the text a command
\* prints
RECURSIVE Text(_)
Text(ls) ==
    IF ls = <<>> THEN <<>> ELSE Head(ls) \o <<"\n">> \o Text(Tail(ls))

\* the sequences over S of length at most n
SeqsUpTo(S, n) == UNION {[1..k -> S] : k \in 0..n}

\* the texts of at most n lines of S, each line ended by "\n"
TextsOver(S, n) == {Text(ls) : ls \in SeqsUpTo(S, n)}

\* Rust string literals, as sequences of characters
S_current == <<"c", "u", "r", "r", "e", "n", "t">>

S_paren_current == <<"(">> \o S_current \o <<")">>

S_system == <<"s", "y", "s", "t", "e", "m", "-">>

S_link == <<"-", "l", "i", "n", "k">>

S_profile_prefix ==
    <<"/", "n", "i", "x", "/", "v", "a", "r", "/", "n", "i", "x", "/",
      "p", "r", "o", "f", "i", "l", "e", "s", "/">> \o S_system

S_extract_failed ==
    <<"F", "a", "i", "l", "e", "d", " ", "t", "o", " ", "e", "x", "t", "r", "a", "c", "t", " ",
      "c", "u", "r", "r", "e", "n", "t", " ", "g", "e", "n", "e", "r", "a", "t", "i", "o", "n",
      " ", "I", "D">>

\* format!("/nix/var/nix/profiles/system-{}-link", id)
SystemLink(id) == S_profile_prefix \o id \o S_link

(***************************************************************************)
(* Results and the environment.                                            *)
(***************************************************************************)
Ok(v) == [ok |-> TRUE, err |-> "", detail |-> <<>>, val |-> v]

Err(kind, text) == [ok |-> FALSE, err |-> kind, detail |-> text, val |-> <<>>]

\* what std::process::Command::output() gives: spawn = FALSE is the Err of
\* output(), otherwise the exit status (0 is success) and the captured streams
Run(sp, st, out, errtxt) ==
    [spawn |-> sp, status |-> st, stdout |-> out, stderr |-> errtxt]

NoRun == Run(FALSE, 0, <<>>, <<>>)

S_stderr == <<"e", "r", "r">>

\* the runs a command can have: not spawned, or ended with a status and a
\* stdout taken from outs
RunsOver(outs) ==
    {NoRun} \cup {Run(TRUE, st, out, S_stderr) : st \in 0..1, out \in outs}

\* one entry of the log of external commands: the program, its path
\* arguments and how it ended (-1: it could not be spawned)
Cmd(prog, args, run) ==
    [prog |-> prog, args |-> args,
     status |-> IF run.spawn THEN run.status ELSE -1]

\* the generation identifiers given on the command line
GenIds == {<<"1">>, <<"2">>}

Init ==
    /\ op = "none"
    /\ pc = "idle"
    /\ env = [from |-> <<>>, to |-> <<>>, runs |-> <<>>]
    /\ loc = <<>>
    /\ cmds = <<>>
    /\ res = Err("", <<>>)

(***************************************************************************)
(* main.rs: get_diff, the set-based diff.                                  *)
(***************************************************************************)
\* Iterator::nth(1).unwrap_or("") on the segments
SecondOrEmpty(parts) == IF Len(parts) >= 2 THEN parts[2] ELSE <<>>

\* PackageName taking the first segment, nth(0)
PackageName_First(x) == Split(x, "-")[1]

\* x.split("-").nth(1).unwrap_or("")
PackageName(x) == SecondOrEmpty(Split(x, "-"))

\* Added with the negation of the filter lost
Added_NoNegation(from_refs, to_refs) ==
    SelectSeq(to_refs, LAMBDA x : Has(from_refs, x))

Added(from_refs, to_refs) ==
    SelectSeq(to_refs, LAMBDA x : ~Has(from_refs, x))

\* s without the repetitions of its elements
RECURSIVE Dedup(_)
Dedup(s) ==
    IF s = <<>> THEN <<>>
    ELSE <<Head(s)>> \o Dedup(SelectSeq(Tail(s), LAMBDA y : y # Head(s)))

\* Removed collected into a set
Removed_Dedup(from_refs, to_refs) ==
    Dedup(SelectSeq(from_refs, LAMBDA x : ~Has(to_refs, x)))

Removed(from_refs, to_refs) ==
    SelectSeq(from_refs, LAMBDA x : ~Has(to_refs, x))

Modified(from_refs, to_refs) ==
    SelectSeq(from_refs, LAMBDA x :
        \E i \in 1..Len(to_refs) :
            PackageName(to_refs[i]) = PackageName(x) /\ to_refs[i] # x)

\* the GenerationDiff get_diff builds from the two Vec<String>
Classify(from_refs, to_refs) ==
    [added    |-> Added(from_refs, to_refs),
     removed  |-> Removed(from_refs, to_refs),
     modified |-> Modified(from_refs, to_refs)]

\* the Vec<String> collected from the stdout of a query that was spawned
RefsOf(run) == IF run.spawn THEN Lines(run.stdout) ELSE <<>>

\* get_diff(from, to), given the outcome of the two nix-store runs and the
\* lists collected from them; the exit status of a run is not looked at
MainGetDiffResult(from_run, to_run, from_refs, to_refs) ==
    IF ~from_run.spawn THEN Err("NixCommandFailed", <<>>)
    ELSE IF ~to_run.spawn THEN Err("NixCommandFailed", <<>>)
    ELSE Ok(Classify(from_refs, to_refs))

\* the commands get_diff runs: the second only if the first could be spawned
MainGetDiffCmds(from, to, from_run, to_run) ==
    <<Cmd("nix-store", <<SystemLink(from)>>, from_run)>>
    \o (IF from_run.spawn
        THEN <<Cmd("nix-store", <<SystemLink(to)>>, to_run)>> ELSE <<>>)

\* dependency-path identifiers: two of the same package name, one without a
\* hyphen, and the empty line
Id_abc_foo == <<"a", "b", "c", "-", "f", "o", "o", "-", "1", ".", "0">>

Id_def_foo == <<"d", "e", "f", "-", "f", "o", "o", "-", "2", ".", "0">>

Id_plain == <<"g", "l", "i", "b", "c">>

Idents == {Id_abc_foo, Id_def_foo, Id_plain, <<>>}

\* the stdout texts of a dependency query
RefTexts == TextsOver(Idents, MaxRefs)

\* `diff <from> <to>` served by get_diff of main.rs
MainGetDiff ==
    /\ pc = "idle"
    /\ \E from \in GenIds,
          sp \in {<<TRUE, TRUE>>, <<TRUE, FALSE>>, <<FALSE, FALSE>>} :
       \E to \in GenIds \ {from}, st1 \in 0..1, st2 \in 0..1,
          out1 \in RefTexts, out2 \in RefTexts :
          LET from_run == IF sp[1] THEN Run(TRUE, st1, out1, S_stderr) ELSE NoRun
              to_run   == IF sp[2] THEN Run(TRUE, st2, out2, S_stderr) ELSE NoRun
          IN  /\ op' = "main_diff"
              /\ env' = [from |-> from, to |-> to, runs |-> <<from_run, to_run>>]
              /\ cmds' = MainGetDiffCmds(from, to, from_run, to_run)
              /\ loc' = [from_refs |-> RefsOf(from_run), to_refs |-> RefsOf(to_run)]
              /\ res' = MainGetDiffResult(from_run, to_run,
                                          RefsOf(from_run), RefsOf(to_run))
              /\ pc' = "done"

(***************************************************************************)
(* services/nix.rs: NixService::get_diff, the tool-delegated diff.         *)
(***************************************************************************)
\* get_generation_store_path without the check of the exit status
GetGenerationStorePath_Unchecked(id, run) ==
    IF ~run.spawn THEN Err("Io", <<>>) ELSE Ok(Trim(run.stdout))

\* get_generation_store_path(id), given the outcome of the nix-env run
GetGenerationStorePath(id, run) ==
    IF ~run.spawn THEN Err("Io", <<>>)
    ELSE IF run.status # 0 THEN Err("GenerationNotFound", id)
    ELSE Ok(Trim(run.stdout))

\* the text after the one-character marker of a diff line: line[1..].trim()
AfterMarker(line) == Trim(Drop(line, 1))

\* the entries pushed to one of the three vectors: of the trimmed lines
\* left, those that start with marker m, without the marker
RECURSIVE Marked(_, _)
Marked(ls, m) ==
    IF ls = <<>> THEN <<>>
    ELSE (IF StartsWith(Trim(Head(ls)), <<m>>)
          THEN <<AfterMarker(Trim(Head(ls)))>> ELSE <<>>)
         \o Marked(Tail(ls), m)

\* parse_diff_output(output)
ParseDiffOutput(output) ==
    Ok([added    |-> Marked(Lines(output), "+"),
        removed  |-> Marked(Lines(output), "-"),
        modified |-> Marked(Lines(output), "~")])

\* get_diff after the two resolutions, given the outcome of the nix-diff run
NixDiffResult(run) ==
    IF ~run.spawn THEN Err("Io", <<>>)
    ELSE IF run.status # 0 THEN Err("NixCommandError", run.stderr)
    ELSE ParseDiffOutput(run.stdout)

\* the stdout of `nix-env -p <link> --query --out-path`
S_store1 == <<"/", "s", "/", "a", "\n">>

S_store2 == <<" ", "/", "s", "/", "b", " ">>

StoreTexts == {S_store1, S_store2}

\* lines of the structural-diff tool
DiffLineSet ==
    { <<"+", " ", "f", "o", "o">>,
      <<" ", "-", "b", "a", "r", " ">>,
      <<"~", " ", " ", "b", "a", "z">>,
      <<"=", " ", "q", "u", "x">>,
      <<>> }

DiffTexts == {Text(ls) : ls \in SeqsUpTo(DiffLineSet, MaxDiffLines)}

\* get_diff, first statement: the store path of `from`
NixResolveFrom ==
    /\ pc = "idle"
    /\ \E from \in GenIds, to \in GenIds, run \in RunsOver(StoreTexts) :
          LET r == GetGenerationStorePath(from, run)
          IN  /\ op' = "nix_diff"
              /\ env' = [from |-> from, to |-> to, runs |-> <<run>>]
              /\ cmds' = <<Cmd("nix-env", <<SystemLink(from)>>, run)>>
              /\ IF r.ok
                 THEN /\ loc' = [from_path |-> r.val]
                      /\ pc' = "resolve_to"
                      /\ UNCHANGED res
                 ELSE /\ res' = r
                      /\ pc' = "done"
                      /\ UNCHANGED loc

\* get_diff, second statement: the store path of `to`
NixResolveTo ==
    /\ pc = "resolve_to"
    /\ \E run \in RunsOver(StoreTexts) :
          LET r == GetGenerationStorePath(env.to, run)
          IN  /\ env' = [env EXCEPT !.runs = Append(@, run)]
              /\ cmds' = Append(cmds, Cmd("nix-env", <<SystemLink(env.to)>>, run))
              /\ IF r.ok
                 THEN /\ loc' = [from_path |-> loc.from_path, to_path |-> r.val]
                      /\ pc' = "nix_diff"
                      /\ UNCHANGED res
                 ELSE /\ res' = r
                      /\ pc' = "done"
                      /\ UNCHANGED loc
    /\ UNCHANGED op

\* get_diff, the rest: nix-diff on the two store paths and the parse of its
\* output
NixRunDiff ==
    /\ pc = "nix_diff"
    /\ \E run \in RunsOver(DiffTexts) :
          /\ env' = [env EXCEPT !.runs = Append(@, run)]
          /\ cmds' = Append(cmds, Cmd("nix-diff", <<loc.from_path, loc.to_path>>, run))
          /\ res' = NixDiffResult(run)
          /\ pc' = "done"
    /\ UNCHANGED <<op, loc>>

NextDiff == MainGetDiff \/ NixResolveFrom \/ NixResolveTo \/ NixRunDiff

SpecDiff == Init /\ [][NextDiff]_vars

(***************************************************************************)
(* chrono: parsing with the format "%Y-%m-%d %H:%M:%S".                    *)
(***************************************************************************)
\* the number the digits s[pos], .., s[pos + n - 1] write
RECURSIVE NumberAt(_, _, _)
NumberAt(s, pos, n) ==
    IF n = 0 THEN 0
    ELSE 10 * NumberAt(s, pos, n - 1) + DigitVal(s[pos + n - 1])

\* the outcome of scanning a number: n digits read at position q ...
ReadDigits(s, q, n, negative) ==
    IF n = 0 THEN [ok |-> FALSE, val |-> 0, next |-> q]
    ELSE [ok |-> TRUE,
          val |-> IF negative THEN 0 - NumberAt(s, q, n) ELSE NumberAt(s, q, n),
          next |-> q + n]

AtMost(n, width) == IF n <= width THEN n ELSE width

\* ... at position p, where no whitespace is left to skip: with signed (the
\* year) a leading + or - lifts the limit of width digits
ScanSigned(s, p, width, signed) ==
    IF signed /\ (CharAt(s, p, "+") \/ CharAt(s, p, "-"))
    THEN ReadDigits(s, p + 1, DigitRun(s, p + 1), CharAt(s, p, "-"))
    ELSE ReadDigits(s, p, AtMost(DigitRun(s, p), width), FALSE)

\* a numeric item of the format at position pos: leading whitespace is
\* skipped, then 1 to width digits are read. [ok, val, next]
ScanNumeric(s, pos, width, signed) ==
    ScanSigned(s, pos + SpaceRun(s, pos), width, signed)

\* the items of "%Y-%m-%d %H:%M:%S" (StrftimeItems)
Num(field, width, signed) ==
    [kind |-> "num", field |-> field, width |-> width, signed |-> signed, char |-> ""]

Lit(c) == [kind |-> "lit", field |-> "", width |-> 0, signed |-> FALSE, char |-> c]

Space == [kind |-> "space", field |-> "", width |-> 0, signed |-> FALSE, char |-> ""]

FormatItems ==
    << Num("year", 4, TRUE), Lit("-"), Num("month", 2, FALSE), Lit("-"),
       Num("day", 2, FALSE), Space,
       Num("hour", 2, FALSE), Lit(":"), Num("minute", 2, FALSE), Lit(":"),
       Num("second", 2, FALSE) >>

\* chrono's Parsed before any item is read, and the place in the input. The
\* format has no offset item, so the offset stays unset.
Parsed0 ==
    [ok |-> TRUE, pos |-> 1, offset |-> "unset",
     fields |-> [year |-> 0, month |-> 0, day |-> 0,
                 hour |-> 0, minute |-> 0, second |-> 0]]

\* a numeric item read: its field set
SetNumeric(item, st, r) ==
    IF r.ok
    THEN [st EXCEPT !.pos = r.next, !.fields[item.field] = r.val]
    ELSE [st EXCEPT !.ok = FALSE]

\* one item of the format applied at st.pos
StepItem(s, item, st) ==
    IF item.kind = "lit"
    THEN (IF CharAt(s, st.pos, item.char)
          THEN [st EXCEPT !.pos = @ + 1] ELSE [st EXCEPT !.ok = FALSE])
    ELSE IF item.kind = "space"
    THEN [st EXCEPT !.pos = @ + SpaceRun(s, @)]
    ELSE SetNumeric(item, st, ScanNumeric(s, st.pos, item.width, item.signed))

\* the items applied in order, up to the first that fails
RECURSIVE RunItems(_, _, _)
RunItems(s, items, st) ==
    IF ~st.ok \/ items = <<>> THEN st
    ELSE RunItems(s, Tail(items), StepItem(s, Head(items), st))

\* input left over after the last item is an error
WholeInput(s, st) == [st EXCEPT !.ok = st.ok /\ st.pos = Len(s) + 1]

\* format::parse(&mut parsed, s, StrftimeItems::new("%Y-%m-%d %H:%M:%S"))
ParseItems(s) == WholeInput(s, RunItems(s, FormatItems, Parsed0))

IsLeapYear(y) == y % 4 = 0 /\ (y % 100 # 0 \/ y % 400 = 0)

DaysInMonth(y, m) ==
    IF m = 2 THEN (IF IsLeapYear(y) THEN 29 ELSE 28)
    ELSE IF m \in {4, 6, 9, 11} THEN 30 ELSE 31

\* the fields name a date and a time of day (second 60 is a leap second)
ValidDateTime(f) ==
    /\ f.year \in -262143..262142
    /\ f.month \in 1..12
    /\ f.day \in 1..DaysInMonth(f.year, f.month)
    /\ f.hour \in 0..23
    /\ f.minute \in 0..59
    /\ f.second \in 0..60

\* Parsed::to_naive_datetime_with_offset(0), then taken as UTC
ToNaiveDateTime(p) ==
    IF ~p.ok THEN Err("Invalid", <<>>)
    ELSE IF ~ValidDateTime(p.fields) THEN Err("OutOfRange", <<>>)
    ELSE Ok(p.fields)

\* Parsed::to_datetime(): a DateTime<FixedOffset> needs the offset among the
\* parsed fields
ToDateTime(p) ==
    IF ~p.ok THEN Err("Invalid", <<>>)
    ELSE IF p.offset = "unset" THEN Err("NotEnough", <<>>)
    ELSE ToNaiveDateTime(p)

\* NaiveDateTime::parse_from_str(s, "%Y-%m-%d %H:%M:%S")
NaiveParseFromStr(s) == ToNaiveDateTime(ParseItems(s))

\* DateTime::parse_from_str(s, "%Y-%m-%d %H:%M:%S")
DateTimeParseFromStr(s) == ToDateTime(ParseItems(s))

\* the text of a chrono error, shortened to the name of its kind
S_invalid == <<"I", "n", "v", "a", "l", "i", "d">>

S_not_enough == <<"N", "o", "t", "E", "n", "o", "u", "g", "h">>

S_out_of_range == <<"O", "u", "t", "O", "f", "R", "a", "n", "g", "e">>

ChronoText(kind) ==
    CASE kind = "Invalid" -> S_invalid
      [] kind = "NotEnough" -> S_not_enough
      [] kind = "OutOfRange" -> S_out_of_range

(***************************************************************************)
(* main.rs: list_generations, the permissive lister.                       *)
(***************************************************************************)
\* the Result of the chrono parse, its error mapped
MapParseErr(r) ==
    IF r.ok THEN r ELSE Err("NixOutputParseFailed", ChronoText(r.err))

\* parse_timestamp(date, time)
ParseTimestamp(date, time) ==
    MapParseErr(NaiveParseFromStr(date \o <<" ">> \o time))

\* the Generation of a line of at least four parts, or None when the
\* timestamp does not parse (.ok()?)
MainGeneration(parts, id, ts) ==
    IF ts.ok
    THEN [some |-> TRUE,
          gen |-> [id |-> id,
                   timestamp |-> ts.val,
                   description |-> IF Contains(parts[1], S_current)
                                   THEN S_paren_current ELSE <<>>,
                   profiles |-> <<SystemLink(id)>>]]
    ELSE [some |-> FALSE]

\* the body of the closure given to filter_map, on the parts of a line
MainPartsGeneration(parts) ==
    IF Len(parts) >= 4
    THEN MainGeneration(parts, TrimEndMatches(parts[1], S_current),
                        ParseTimestamp(parts[2], parts[3]))
    ELSE [some |-> FALSE]

\* the closure given to filter_map: the Generation of a line, or None
MainLineGeneration(line) == MainPartsGeneration(SplitWhitespace(line))

\* the lines with the first one kept
Skip1_None(ls) == ls

\* Iterator::skip(1)
Skip1(ls) == IF ls = <<>> THEN <<>> ELSE Tail(ls)

\* a filter_map result put before the results of the lines after it
OptCons(opt, rest) == IF opt.some THEN <<opt.gen>> \o rest ELSE rest

\* Iterator::filter_map(..).collect() over the lines
RECURSIVE FilterMapLines(_)
FilterMapLines(ls) ==
    IF ls = <<>> THEN <<>>
    ELSE OptCons(MainLineGeneration(Head(ls)), FilterMapLines(Tail(ls)))

\* lines().skip(1).filter_map(..).collect()
MainGenerations(output_str) == FilterMapLines(Skip1(Lines(output_str)))

\* list_generations(), given the outcome of the nixos-rebuild run
MainListGenerationsResult(run) ==
    IF ~run.spawn THEN Err("NixCommandFailed", <<>>)
    ELSE IF run.status # 0 THEN Err("NixCommandFailed", run.stderr)
    ELSE Ok(MainGenerations(run.stdout))

\* lines of a generation listing: a header, two well-formed lines, one with
\* the id marked current and one-digit date fields, one of month 13, one
\* without a description, one with a word for id, and the empty line
L_header == <<"G", "e", "n", " ", " ", "B", "u", "i", "l", "d", " ", "V", "e", "r", " ", "K">>

L_gen1 ==
    <<" ", " ", "1", " ", " ", "2", "0", "2", "4", "-", "0", "2", "-", "0", "9",
      " ", "1", "0", ":", "0", "0", ":", "0", "0", " ", " ", "n", "i", "x", " ">>

L_gen2 ==
    <<"2", " ", "2", "0", "2", "4", "-", "0", "2", "-", "0", "9",
      " ", "1", "1", ":", "0", "0", ":", "0", "0", " ", "o", "s">>

L_gen3current ==
    <<"3", "c", "u", "r", "r", "e", "n", "t", "\t", "2", "0", "2", "4", "-", "2", "-", "9",
      " ", "1", ":", "2", ":", "3", " ", "x">>

L_badtime ==
    <<"4", " ", "2", "0", "2", "4", "-", "1", "3", "-", "4", "5",
      " ", "2", "5", ":", "0", "0", ":", "0", "0", " ", "x">>

L_nodesc ==
    <<"5", " ", "2", "0", "2", "4", "-", "0", "2", "-", "0", "9",
      " ", "1", "0", ":", "0", "0", ":", "0", "0">>

L_wordid ==
    <<"v", "6", " ", "2", "0", "2", "4", "-", "0", "2", "-", "2", "9",
      " ", "2", "3", ":", "5", "9", ":", "5", "9", " ", "x">>

ListingLines ==
    {L_header, L_gen1, L_gen2, L_gen3current, L_badtime, L_nodesc, L_wordid, <<>>}

ListingTexts == TextsOver(ListingLines, MaxLines)

\* `list-generations` served by list_generations of main.rs
MainListGenerations ==
    /\ pc = "idle"
    /\ \E run \in RunsOver(ListingTexts) :
          /\ op' = "main_list"
          /\ env' = [from |-> <<>>, to |-> <<>>, runs |-> <<run>>]
          /\ cmds' = <<Cmd("nixos-rebuild", <<>>, run)>>
          /\ res' = MainListGenerationsResult(run)
          /\ pc' = "done"
          /\ UNCHANGED loc

(***************************************************************************)
(* services/nix.rs: NixService::list_generations, the strict lister.       *)
(***************************************************************************)
\* s holds exactly n digits from position pos on, inside s
DigitsAt(s, pos, n) ==
    pos + n - 1 <= Len(s) /\ \A i \in pos..(pos + n - 1) : s[i] \in Digits

NoCaptures == [ok |-> FALSE, id |-> <<>>, stamp |-> <<>>, desc |-> <<>>]

\* \d{4}-\d{2}-\d{2} at position p
DateAt(line, p) ==
    /\ DigitsAt(line, p, 4) /\ CharAt(line, p + 4, "-")
    /\ DigitsAt(line, p + 5, 2) /\ CharAt(line, p + 7, "-")
    /\ DigitsAt(line, p + 8, 2)

\* \d{2}:\d{2}:\d{2} at position p
TimeAt(line, p) ==
    /\ DigitsAt(line, p, 2) /\ CharAt(line, p + 2, ":")
    /\ DigitsAt(line, p + 3, 2) /\ CharAt(line, p + 5, ":")
    /\ DigitsAt(line, p + 6, 2)

\* \s+(.*)$ after the time, which ends before position e: w whitespace
\* characters, then the description
CapturesDesc(line, p1, n1, p2, e, w) ==
    IF w >= 1
    THEN [ok |-> TRUE,
          id |-> SubSeq(line, p1, p1 + n1 - 1),
          stamp |-> SubSeq(line, p2, e - 1),
          desc |-> Drop(line, e + w - 1)]
    ELSE NoCaptures

\* \s+\d{2}:\d{2}:\d{2} after the date, which ends before position e: w
\* whitespace characters, then the time
CapturesTime(line, p1, n1, p2, e, w) ==
    IF w >= 1 /\ TimeAt(line, e + w)
    THEN CapturesDesc(line, p1, n1, p2, e + w + 8, SpaceRun(line, e + w + 8))
    ELSE NoCaptures

\* \s+\d{4}-\d{2}-\d{2} after the id of n1 digits at position p1: w
\* whitespace characters, then the date
CapturesDate(line, p1, n1, w) ==
    IF n1 >= 1 /\ w >= 1 /\ DateAt(line, p1 + n1 + w)
    THEN CapturesTime(line, p1, n1, p1 + n1 + w, p1 + n1 + w + 10,
                      SpaceRun(line, p1 + n1 + w + 10))
    ELSE NoCaptures

\* (\d+) at position p1, of n1 digits
CapturesId(line, p1, n1) == CapturesDate(line, p1, n1, SpaceRun(line, p1 + n1))

\* the captures of
\*   ^\s*(\d+)\s+(\d{4}-\d{2}-\d{2}\s+\d{2}:\d{2}:\d{2})\s+(.*)$
\* on a line. [ok, id, stamp, desc]
GenerationCaptures(line) ==
    CapturesId(line, 1 + SpaceRun(line, 1), DigitRun(line, 1 + SpaceRun(line, 1)))

\* system-(\d+)-link matches path at position i
CurrentAt(path, i) ==
    /\ Slice(path, i, i + Len(S_system) - 1) = S_system
    /\ DigitRun(path, i + Len(S_system)) >= 1
    /\ Slice(path, i + Len(S_system) + DigitRun(path, i + Len(S_system)),
                   i + Len(S_system) + DigitRun(path, i + Len(S_system))
                     + Len(S_link) - 1) = S_link

\* the digits captured by the match at position i
CurrentIdAt(path, i) ==
    SubSeq(path, i + Len(S_system),
                 i + Len(S_system) + DigitRun(path, i + Len(S_system)) - 1)

\* the capture of system-(\d+)-link at its leftmost match in path. [ok, id]
CurrentCaptures(path) ==
    IF \E i \in 1..Len(path) : CurrentAt(path, i)
    THEN [ok |-> TRUE,
          id |-> CurrentIdAt(path, CHOOSE i \in 1..Len(path) :
                    CurrentAt(path, i) /\ \A j \in 1..(i - 1) : ~CurrentAt(path, j))]
    ELSE [ok |-> FALSE, id |-> <<>>]

\* the end of get_current_generation, on the captures
CurrentOfCaptures(caps) ==
    IF caps.ok THEN Ok(caps.id) ELSE Err("ParseError", S_extract_failed)

\* get_current_generation(), given the outcome of the readlink run
GetCurrentGeneration(run) ==
    IF ~run.spawn THEN Err("Io", <<>>)
    ELSE IF run.status # 0 THEN Err("NixCommandError", run.stderr)
    ELSE CurrentOfCaptures(CurrentCaptures(run.stdout))

\* the Generation pushed for a line's captures
NixGeneration(caps, timestamp, current_generation) ==
    [id |-> caps.id,
     timestamp |-> timestamp,
     description |-> Trim(caps.desc),
     profiles |-> <<SystemLink(caps.id)>>,
     current |-> caps.id = current_generation]

\* the for loop of parse_generations_output over the lines left, generations
\* holding what was pushed so far
RECURSIVE ParseLoop(_, _, _)
RECURSIVE ParseLine(_, _, _, _)
RECURSIVE ParseStamp(_, _, _, _, _)
\* the loop skipping a line whose timestamp does not parse
ParseStamp_Skip(lines, current_generation, generations, caps, ts) ==
    IF ~ts.ok THEN ParseLoop(Tail(lines), current_generation, generations)
    ELSE ParseLoop(Tail(lines), current_generation,
                   Append(generations,
                          NixGeneration(caps, ts.val, current_generation)))

ParseLoop(lines, current_generation, generations) ==
    IF lines = <<>> THEN Ok(generations)
    ELSE ParseLine(lines, current_generation, generations,
                   GenerationCaptures(Head(lines)))

\* the body of the loop for the first of lines, given its captures
ParseLine(lines, current_generation, generations, caps) ==
    IF ~caps.ok
    THEN ParseLoop(Tail(lines), current_generation, generations)
    ELSE ParseStamp(lines, current_generation, generations, caps,
                    DateTimeParseFromStr(caps.stamp))

\* the body of the loop after the timestamp was parsed: the `?` on its error
ParseStamp(lines, current_generation, generations, caps, ts) ==
    IF ~ts.ok THEN Err("ParseError", ChronoText(ts.err))
    ELSE ParseLoop(Tail(lines), current_generation,
                   Append(generations,
                          NixGeneration(caps, ts.val, current_generation)))

\* parse_generations_output going on without a current generation when its
\* resolution fails
ParseWithCurrent_Soft(output, cur) ==
    ParseLoop(Lines(output), IF cur.ok THEN cur.val ELSE <<>>, <<>>)

\* parse_generations_output after get_current_generation()
ParseWithCurrent(output, cur) ==
    IF ~cur.ok THEN cur ELSE ParseLoop(Lines(output), cur.val, <<>>)

\* parse_generations_output(output), given the outcome of the readlink run
ParseGenerationsOutput(output, readlink_run) ==
    ParseWithCurrent(output, GetCurrentGeneration(readlink_run))

\* the stdout of `readlink /nix/var/nix/profiles/system`
S_link1 == S_system \o <<"1">> \o S_link \o <<"\n">>

S_link2 == S_system \o <<"2">> \o S_link \o <<"\n">>

S_elsewhere == <<"/", "r", "u", "n", "/", "s", "y", "s", "t", "e", "m", "-", "l", "i", "n", "k", "\n">>

ReadlinkTexts == {S_link1, S_link2, S_elsewhere}

\* NixService::list_generations: the nix-env run, up to the call of
\* parse_generations_output
NixListGenerations ==
    /\ pc = "idle"
    /\ \E run \in RunsOver(ListingTexts) :
          /\ op' = "nix_list"
          /\ env' = [from |-> <<>>, to |-> <<>>, runs |-> <<run>>]
          /\ cmds' = <<Cmd("nix-env", <<>>, run)>>
          /\ IF ~run.spawn
             THEN res' = Err("Io", <<>>) /\ pc' = "done" /\ UNCHANGED loc
             ELSE IF run.status # 0
             THEN res' = Err("NixCommandError", run.stderr) /\ pc' = "done"
                  /\ UNCHANGED loc
             ELSE loc' = [output_str |-> run.stdout] /\ pc' = "parse"
                  /\ UNCHANGED res

\* parse_generations_output: the readlink run of get_current_generation and
\* the loop over the lines
NixParseGenerationsOutput ==
    /\ pc = "parse"
    /\ \E run \in RunsOver(ReadlinkTexts) :
          /\ env' = [env EXCEPT !.runs = Append(@, run)]
          /\ cmds' = Append(cmds, Cmd("readlink", <<>>, run))
          /\ res' = ParseGenerationsOutput(loc.output_str, run)
          /\ pc' = "done"
    /\ UNCHANGED <<op, loc>>

NextList == MainListGenerations \/ NixListGenerations \/ NixParseGenerationsOutput

SpecList == Init /\ [][NextList]_vars

Next == NextDiff \/ NextList

Spec == Init /\ [][Next]_vars

(***************************************************************************)
(* Properties of the diff engines.                                         *)
(***************************************************************************)
Elems(s) == {s[i] : i \in 1..Len(s)}

\* how many times x occurs in s
Count(s, x) == Cardinality({i \in 1..Len(s) : s[i] = x})

NoDup(s) == \A i, j \in 1..Len(s) : s[i] = s[j] => i = j

\* a finished set-based diff that returned a GenerationDiff
MainDiffDone == op = "main_diff" /\ pc = "done" /\ res.ok

\* C1: in the set-based diff, added holds exactly the elements of S_to absent
\* from S_from, removed exactly the elements of S_from absent from S_to, the
\* two share no element, and both are empty when S_from and S_to hold the
\* same elements.
C1_DiffSetLaws ==
    MainDiffDone =>
        LET F == Elems(loc.from_refs)
            T == Elems(loc.to_refs)
            A == Elems(res.val.added)
            R == Elems(res.val.removed)
        IN  /\ A = T \ F
            /\ R = F \ T
            /\ A \cap R = {}
            /\ (F = T => res.val.added = <<>> /\ res.val.removed = <<>>)

\* a diff with something added, something removed and something in common
C1_Witness ==
    /\ MainDiffDone
    /\ res.val.added # <<>>
    /\ res.val.removed # <<>>
    /\ Elems(loc.from_refs) \cap Elems(loc.to_refs) # {}

\* the package name as the claim words it: the text between the first and
\* the second hyphen (or the end), the empty text when there is no hyphen
C2_Name(x) ==
    LET hy == {i \in 1..Len(x) : x[i] = "-"}
    IN  IF hy = {} THEN <<>>
        ELSE LET h1   == CHOOSE i \in hy : \A j \in hy : i <= j
                 rest == {i \in hy : i > h1}
                 h2   == IF rest = {} THEN Len(x) + 1
                         ELSE CHOOSE i \in rest : \A j \in rest : i <= j
             IN  SubSeq(x, h1 + 1, h2 - 1)

\* C2: x is in modified iff x is in S_from and some y of S_to, different
\* from x, has the same package name (second hyphen-delimited segment, or
\* empty); whether x is in removed plays no part.
C2_ModifiedIff ==
    MainDiffDone =>
        \A x \in Idents \cup Elems(loc.from_refs) \cup Elems(loc.to_refs) :
            x \in Elems(res.val.modified)
            <=> /\ x \in Elems(loc.from_refs)
                /\ \E y \in Elems(loc.to_refs) : y # x /\ C2_Name(y) = C2_Name(x)

\* one diff where an identifier is both modified and removed, and another,
\* whose only same-name entry of S_to is itself, is not modified
C2_Witness ==
    /\ MainDiffDone
    /\ \E x \in Elems(res.val.modified) : x \in Elems(res.val.removed)
    /\ \E x \in Elems(loc.from_refs) :
          /\ x \in Elems(loc.to_refs)
          /\ x \notin Elems(res.val.modified)
          /\ C2_Name(x) # <<>>

\* an identifier without a hyphen that is modified and not removed: the
\* to-list holds it and another identifier of empty package name
C2_WitnessKept ==
    /\ MainDiffDone
    /\ \E x \in Elems(res.val.modified) :
          x \notin Elems(res.val.removed) /\ C2_Name(x) = <<>> /\ x # <<>>

\* C7: a diff request in which an external command exited with a non-zero
\* status ends in an error, under either strategy.
C7_NonZeroExitIsError ==
    (op \in {"main_diff", "nix_diff"} /\ pc = "done"
        /\ \E i \in 1..Len(cmds) : cmds[i].status > 0)
    => ~res.ok

\* C7, the tool-delegated strategy alone
C7_NixNonZeroExitIsError ==
    (op = "nix_diff" /\ pc = "done"
        /\ \E i \in 1..Len(cmds) : cmds[i].status > 0)
    => ~res.ok

C10_Order ==
    op = "nix_diff" =>
        /\ Len(cmds) \in 1..3
        /\ cmds[1].prog = "nix-env" /\ cmds[1].args = <<SystemLink(env.from)>>
        /\ Len(cmds) >= 2 =>
              /\ cmds[2].prog = "nix-env" /\ cmds[2].args = <<SystemLink(env.to)>>
              /\ cmds[1].status = 0
        /\ Len(cmds) = 3 =>
              /\ cmds[3].prog = "nix-diff"
              /\ cmds[3].args = <<loc.from_path, loc.to_path>>
              /\ cmds[1].status = 0 /\ cmds[2].status = 0
        /\ \A i \in 1..Len(cmds) :
              (cmds[i].prog = "nix-env" /\ cmds[i].status > 0) =>
                  /\ i = Len(cmds)
                  /\ pc = "done"
                  /\ res = Err("GenerationNotFound",
                               IF i = 1 THEN env.from ELSE env.to)

\* `from` resolved, the resolution of `to` exited non-zero
C10_Witness ==
    /\ op = "nix_diff" /\ pc = "done"
    /\ Len(cmds) = 2 /\ cmds[1].status = 0 /\ cmds[2].status > 0
    /\ env.from # env.to
    /\ res.err = "GenerationNotFound" /\ res.detail = env.to

(***************************************************************************)
(* Properties of the listers.                                              *)
(***************************************************************************)
\* a finished permissive listing that returned generations
MainListDone == op = "main_list" /\ pc = "done" /\ res.ok

\* the lines of the listing command's output
ListedLines == Lines(env.runs[1].stdout)

\* the lines after the first one
LinesAfterFirst ==
    IF ListedLines = <<>> THEN <<>> ELSE SubSeq(ListedLines, 2, Len(ListedLines))

\* a line the permissive path takes: at least four tokens, the second and
\* third a date and a time
C3_Accepted(line) ==
    LET w == SplitWhitespace(line)
    IN  Len(w) >= 4 /\ NaiveParseFromStr(w[2] \o <<" ">> \o w[3]).ok

\* a line of the fixed format: accepted, and the id an integer (that may
\* carry the word current)
C3_Valid(line) ==
    /\ C3_Accepted(line)
    /\ LET id == TrimEndMatches(SplitWhitespace(line)[1], S_current)
       IN  id # <<>> /\ \A i \in 1..Len(id) : id[i] \in Digits

\* the id and the timestamp a line's entry carries
C3_Id(line) == TrimEndMatches(SplitWhitespace(line)[1], S_current)

C3_Stamp(line) ==
    LET w == SplitWhitespace(line)
    IN  NaiveParseFromStr(w[2] \o <<" ">> \o w[3]).val

\* the result holds one entry per line of ls, in order
C3_EntriesOf(ls) ==
    /\ Len(res.val) = Len(ls)
    /\ \A k \in 1..Len(ls) :
          /\ res.val[k].id = C3_Id(ls[k])
          /\ res.val[k].timestamp = C3_Stamp(ls[k])
          /\ res.val[k].profiles = <<SystemLink(C3_Id(ls[k]))>>

\* C3 as stated: the permissive listing returns exactly the lines of the
\* fixed format, in order, wherever they stand, the first line included.
C3_ExactlyValid ==
    MainListDone => C3_EntriesOf(SelectSeq(ListedLines, C3_Valid))

\* C3, amended: the first line is always dropped; of the lines after it,
\* exactly those with at least four tokens whose second and third parse as
\* date and time are returned, in order, whatever the first token is.
C3_AfterHeader ==
    MainListDone => C3_EntriesOf(SelectSeq(LinesAfterFirst, C3_Accepted))

\* a valid first line that is dropped, then a malformed line, then a valid
\* line that is returned
C3_Witness ==
    /\ MainListDone
    /\ Len(ListedLines) = 3
    /\ C3_Valid(ListedLines[1])
    /\ ~C3_Accepted(ListedLines[2])
    /\ C3_Valid(ListedLines[3])
    /\ Len(res.val) = 1
    /\ res.val[1].id = C3_Id(ListedLines[3])

\* a finished strict listing whose two commands ended well and whose
\* indirection resolved
NixListResolved ==
    /\ op = "nix_list" /\ pc = "done" /\ Len(cmds) = 2
    /\ cmds[2].status = 0
    /\ CurrentCaptures(env.runs[2].stdout).ok

\* a finished strict listing whose resolution failed
NixListUnresolved ==
    /\ op = "nix_list" /\ pc = "done" /\ Len(cmds) = 2
    /\ (cmds[2].status # 0 \/ ~CurrentCaptures(env.runs[2].stdout).ok)

\* a well-formed line: <id> <YYYY-MM-DD> <HH:MM:SS> <desc>, the date and
\* time those of a day and a time of day
C4_WellFormed(line) ==
    /\ GenerationCaptures(line).ok
    /\ NaiveParseFromStr(GenerationCaptures(line).stamp).ok

\* C4: for N well-formed lines and a resolvable indirection the strict
\* parser returns Ok with N records in input order, each with the line's
\* id, its date and time as a UTC timestamp, and its description trimmed.
C4_StrictRoundTrip ==
    (NixListResolved /\ \A i \in 1..Len(ListedLines) : C4_WellFormed(ListedLines[i]))
    => /\ res.ok
       /\ Len(res.val) = Len(ListedLines)
       /\ \A i \in 1..Len(ListedLines) :
             LET caps == GenerationCaptures(ListedLines[i])
             IN  /\ res.val[i].id = caps.id
                 /\ res.val[i].timestamp = NaiveParseFromStr(caps.stamp).val
                 /\ res.val[i].description = Trim(caps.desc)

C5_ReturnedListings ==
    (op = "nix_list" /\ pc = "done" /\ res.ok)
    => /\ \A i \in 1..Len(res.val) :
             res.val[i].current
               <=> res.val[i].id = CurrentCaptures(env.runs[2].stdout).id
       /\ Cardinality({i \in 1..Len(res.val) : res.val[i].current}) <= 1

\* no strict listing ever returns a Generation
C5_NoGenerationReturned ==
    (op = "nix_list" /\ pc = "done" /\ res.ok) => res.val = <<>>

\* C6 as stated: a failed resolution is no error; the listing returns the
\* parsed generations, none of them current.
C6_SoftResolution ==
    NixListUnresolved
    => res.ok /\ \A i \in 1..Len(res.val) : ~res.val[i].current

\* C6, amended: a failed resolution fails the listing with the error of the
\* resolution, whatever the lines are, and no generation is returned.
C6_ResolutionFatal ==
    NixListUnresolved
    => /\ ~res.ok
       /\ res.val = <<>>
       /\ res = IF cmds[2].status = -1 THEN Err("Io", <<>>)
                ELSE IF cmds[2].status # 0
                THEN Err("NixCommandError", env.runs[2].stderr)
                ELSE Err("ParseError", S_extract_failed)

\* the target of the indirection does not match, under a listing of
\* well-formed lines
C6_Witness ==
    /\ NixListUnresolved
    /\ cmds[2].status = 0
    /\ Len(ListedLines) >= 2
    /\ \A i \in 1..Len(ListedLines) : C4_WellFormed(ListedLines[i])
    /\ res = Err("ParseError", S_extract_failed)

\* a line that matches the format of its path and whose timestamp does not
\* parse
C9_BadStampMain(line) ==
    LET w == SplitWhitespace(line)
    IN  Len(w) >= 4 /\ ~NaiveParseFromStr(w[2] \o <<" ">> \o w[3]).ok

C9_BadStampNix(line) ==
    /\ GenerationCaptures(line).ok
    /\ ~DateTimeParseFromStr(GenerationCaptures(line).stamp).ok

\* the strict half of C9: the listing is aborted with a parse error
C9_StrictAborts ==
    (\E i \in 1..Len(ListedLines) : C9_BadStampNix(ListedLines[i]))
    => /\ ~res.ok /\ res.err = "ParseError" /\ res.val = <<>>
       /\ res.detail # S_extract_failed

\* C9 as stated: permissive, a line whose timestamp fails is dropped alone
\* and every other valid line is returned; strict, the first such failure
\* aborts the listing with a parse error and no records.
C9_PerMode ==
    /\ (MainListDone /\ \E i \in 1..Len(ListedLines) : C9_BadStampMain(ListedLines[i]))
       => C3_EntriesOf(SelectSeq(ListedLines, C3_Valid))
    /\ (op = "nix_list" /\ pc = "done" /\ Len(cmds) = 2) => C9_StrictAborts

\* C9, amended: permissive, of the lines after the first, a line whose
\* timestamp fails is dropped alone and every other accepted line is
\* returned; strict, once the indirection resolved, the first such failure
\* aborts the listing with a parse error and no records.
C9_PerModeAfterHeader ==
    /\ MainListDone
       => /\ C3_EntriesOf(SelectSeq(SelectSeq(LinesAfterFirst,
                                              LAMBDA l : ~C9_BadStampMain(l)),
                                     C3_Accepted))
          /\ \A k \in 1..Len(res.val) :
                \A i \in 2..Len(ListedLines) :
                    C9_BadStampMain(ListedLines[i])
                    => res.val[k].id # C3_Id(ListedLines[i])
    /\ NixListResolved => C9_StrictAborts

\* permissive: after the header a line of month 13, dropped, and a valid
\* line, returned
C9_Witness ==
    /\ MainListDone
    /\ Len(ListedLines) = 3
    /\ C9_BadStampMain(ListedLines[2])
    /\ C3_Valid(ListedLines[3])
    /\ Len(res.val) = 1
    /\ res.val[1].id = C3_Id(ListedLines[3])

\* strict: the indirection resolved, the second line's timestamp fails, and
\* the listing is a parse error
C9_WitnessStrict ==
    /\ NixListResolved
    /\ Len(ListedLines) = 3
    /\ ~GenerationCaptures(ListedLines[1]).ok
    /\ C9_BadStampNix(ListedLines[2])
    /\ ~NaiveParseFromStr(GenerationCaptures(ListedLines[2]).stamp).ok
    /\ res.err = "ParseError" /\ res.val = <<>>

============================================================================
